---- MODULE Spec2Model ----
(***************************************************************************)
(* schedule-me (src/lib/index.js): the ScheduleMe scheduler, a registry of *)
(* ScheduleMeJob objects, and the timers (cron, setInterval, setTimeout)   *)
(* the jobs arm.                                                           *)
(*                                                                         *)
(* JavaScript values are modelled by tagged strings ("undefined", "null",  *)
(* "num:0", "err:boom", "str:d", "fn"); Truthy is JavaScript's ToBoolean   *)
(* on them.  A job's uniqueId (uuid.v4()) is its position in the registry. *)
(*                                                                         *)
(* A timer handle (cronJob, interval, dateTimeout) is an opaque reference; *)
(* it is modelled by what it refers to: "undefined" (never assigned),      *)
(* "live" (a timer that is armed) or "dead" (one that was cancelled or, a  *)
(* timeout, has fired).  timers[i] counts the armed timers whose callback  *)
(* is job i's callable: the one its handle refers to, if live, and those   *)
(* an earlier start() armed and a later start() lost the handle of.        *)
(* A timeout of a date job is due at the job's instant (now + (when -      *)
(* now)); when an interval or a cron registration fires is the host's and  *)
(* the cron evaluator's choice: it may fire at any time while armed.       *)
(* The job's name and the events' time field are not modelled.             *)
(***************************************************************************)
EXTENDS Integers, Sequences, FiniteSets, TLC

\* ---------------------------------------------------------------- bounds
MaxJobs == 2
MaxTimers == 2
MaxTime == 2
MaxInflight == 1
MaxList == 2
MaxNest == 1

\* ---------------------------------------------------------------- values
Undefined == "undefined"

NoHandle == "undefined"

\* JavaScript's ToBoolean on the modelled values: if(err), if(!this.job), ...
Truthy(v) == v \notin {"undefined", "null", "num:0", "str:", "false"}

\* what the callables of the scheduled jobs hand to their completion signal as the
\* error: nothing, or an Error
ErrValues == {"undefined", "err:boom"}

\* and as the payload
DataValues == {"str:d"}

\* the trigger given as `when`: its typeof, and the period or the instant
WhenValues ==
  { [type |-> "string", v |-> 0],
    [type |-> "number", v |-> 1],
    [type |-> "date", v |-> 1],
    [type |-> "undefined", v |-> 0] }

\* if(!this.when): undefined, and the number 0, are falsy
WhenTruthy(w) == w.type # "undefined" /\ ~(w.type = "number" /\ w.v = 0)

\* the structured specification {job, when, immediate}: every trigger kind, with
\* immediate on a cron and on a date job, and the two that lack a key
Specs ==
  {spec \in [job : {"fn"}, when : WhenValues \ {[type |-> "undefined", v |-> 0]},
             immediate : BOOLEAN] : spec.immediate => spec.when.type # "number"}
    \cup { [job |-> "undefined", when |-> [type |-> "string", v |-> 0], immediate |-> FALSE],
           [job |-> "fn", when |-> [type |-> "undefined", v |-> 0], immediate |-> FALSE] }

VARIABLES
  jobs,      \* ScheduleMe.jobs: the registry, a sequence of ScheduleMeJob
  started,   \* ScheduleMe.started
  timers,    \* per job, the armed timers of the host that invoke its callable
  now,       \* the clock, new Date()
  inflight,  \* per job and source, the invocations that returned and have not signalled
  running,   \* per job: its last start() returned and no stop() returned since
  announced, \* per job: a jobStart event carrying its id has been emitted
  last       \* the last step (a call of the public surface, a timer firing, a
             \* completion signal, a tick): how it ended, what it armed and returned,
             \* which callables were invoked in it, what they signalled in it and
             \* what was emitted in it

vars == <<jobs, started, timers, now, inflight, running, announced, last>>

NoReturn == [kind |-> "undefined", ids |-> <<>>]

\* the record of a step that worked on state m; arg is the shape of what scheduleAll
\* was given; after is how the step before ended when this step and that one are both
\* calls of the scheduler's start()
Op(op, i, m, arg, ret) ==
  [op |-> op, job |-> i, outcome |-> m.outcome, armed |-> m.armed, arg |-> arg,
   ret |-> ret, invoked |-> m.invoked, signals |-> m.signals, emitted |-> m.emitted,
   after |-> IF op = "start" /\ last.op = "start" THEN last.outcome ELSE "none"]

\* a step that ends normally, arms nothing, invokes nothing and emits nothing
Quiet == [outcome |-> "ok", armed |-> 0, invoked |-> <<>>, signals |-> <<>>, emitted |-> <<>>]

\* function ScheduleMe(options): this.jobs = []; this.started = false
Init ==
  /\ jobs = <<>>
  /\ started = FALSE
  /\ timers = <<>>
  /\ now = 0
  /\ inflight = <<>>
  /\ running = <<>>
  /\ announced = <<>>
  /\ last = [op |-> "new", job |-> 0, outcome |-> "ok", armed |-> 0, arg |-> "none",
             ret |-> NoReturn, invoked |-> <<>>, signals |-> <<>>, emitted |-> <<>>,
             after |-> "none"]

\* ------------------------------------------------------------ registration

\* the constructor without its check of this.when
ScheduleMeJobError_NoWhenCheck(options) ==
  IF ~Truthy(options.job) THEN "No job given" ELSE "ok"

\* function ScheduleMeJob(options): the checks in the constructor's order
\* (options.parent is always set by schedule before the constructor runs)
ScheduleMeJobError(options) ==
  IF ~Truthy(options.job) THEN "No job given"
  ELSE IF ~WhenTruthy(options.when) THEN "No when given"
  ELSE "ok"

\* the object the constructor leaves: no handle is set before start()
ScheduleMeJob(options) ==
  [job |-> options.job, when |-> options.when, immediate |-> options.immediate,
   cronJob |-> NoHandle, interval |-> NoHandle, dateTimeout |-> NoHandle]

\* schedule's options: the object itself, or the one built from (func, when, name),
\* which has no immediate key
ScheduleOptions(form, spec) ==
  IF form = "structured" THEN spec
  ELSE [job |-> spec.job, when |-> spec.when, immediate |-> FALSE]

\* schedule putting the new job at the front of the registry
ScheduleRun_Unshift(js, form, spec) ==
  LET options == ScheduleOptions(form, spec)
      err == ScheduleMeJobError(options)
  IN  IF err # "ok" THEN [jobs |-> js, outcome |-> err]
      ELSE [jobs |-> <<ScheduleMeJob(options)>> \o js, outcome |-> "ok"]

\* ScheduleMe.prototype.schedule on registry js: the registry after it, and how it ended
ScheduleRun(js, form, spec) ==
  LET options == ScheduleOptions(form, spec)
      err == ScheduleMeJobError(options)
  IN  IF err # "ok" THEN [jobs |-> js, outcome |-> err]
      ELSE [jobs |-> Append(js, ScheduleMeJob(options)), outcome |-> "ok"]

\* the per-job variables follow the registry: a new job has no timer, no invocation
\* in flight, and has not been started
Grow(seq, js, v) == seq \o [i \in 1..(Len(js) - Len(seq)) |-> v]

NoneInflight == [immediate |-> 0, trigger |-> 0]

\* schedule arming the new job's timer when the scheduler is started
Schedule_AutoStart(form, spec) ==
  LET r == ScheduleRun(jobs, form, spec) IN
  /\ Len(r.jobs) <= MaxJobs
  /\ jobs' = r.jobs
  /\ running' = Grow(running, r.jobs, started)
  /\ announced' = Grow(announced, r.jobs, FALSE)
  /\ timers' = Grow(timers, r.jobs, IF started THEN 1 ELSE 0)
  /\ inflight' = Grow(inflight, r.jobs, NoneInflight)
  /\ last' = Op("schedule", IF r.outcome = "ok" THEN Len(r.jobs) ELSE 0,
               [Quiet EXCEPT !.outcome = r.outcome], "none",
               IF r.outcome = "ok" THEN [kind |-> "Job", ids |-> <<Len(r.jobs)>>]
                                   ELSE NoReturn)
  /\ UNCHANGED <<started, now>>

Schedule(form, spec) ==
  LET r == ScheduleRun(jobs, form, spec) IN
  /\ Len(r.jobs) <= MaxJobs
  /\ jobs' = r.jobs
  /\ running' = Grow(running, r.jobs, FALSE)
  /\ announced' = Grow(announced, r.jobs, FALSE)
  /\ timers' = Grow(timers, r.jobs, 0)
  /\ inflight' = Grow(inflight, r.jobs, NoneInflight)
  /\ last' = Op("schedule", IF r.outcome = "ok" THEN Len(r.jobs) ELSE 0,
               [Quiet EXCEPT !.outcome = r.outcome], "none",
               IF r.outcome = "ok" THEN [kind |-> "Job", ids |-> <<Len(r.jobs)>>]
                                   ELSE NoReturn)
  /\ UNCHANGED <<started, now>>

\* the specifications scheduleAll is given, alone or in arrays
ListSpecs ==
  { [job |-> "fn", when |-> [type |-> "string", v |-> 0], immediate |-> FALSE],
    [job |-> "fn", when |-> [type |-> "number", v |-> 1], immediate |-> TRUE],
    [job |-> "undefined", when |-> [type |-> "string", v |-> 0], immediate |-> FALSE] }

\* what scheduleAll is given: one specification, or an array whose items are
\* specifications and arrays of specifications
SpecNode(spec) == [shape |-> "spec", spec |-> spec, items |-> <<>>]

\* an array read as a specification has no job, no when and no immediate
NoSpec == [job |-> "undefined", when |-> [type |-> "undefined", v |-> 0], immediate |-> FALSE]

ArrayNode(items) == [shape |-> "array", spec |-> NoSpec, items |-> items]

SeqsUpTo(S, n) == UNION {[1..k -> S] : k \in 0..n}

Items ==
  {SpecNode(spec) : spec \in ListSpecs}
    \cup {ArrayNode(inner) : inner \in SeqsUpTo({SpecNode(spec) : spec \in ListSpecs}, MaxNest)}

Inputs ==
  {SpecNode(spec) : spec \in ListSpecs} \cup {ArrayNode(items) : items \in SeqsUpTo(Items, MaxList)}

\* JavaScript's typeof: "object" for a plain object and for an array
TypeOf(node) == "object"

\* this.schedule(j) with j an object of either shape: typeof(func) === 'object'
ScheduleNode(js, node) == ScheduleRun(js, "structured", node.spec)

RECURSIVE InnerFrom(_, _, _)
\* j.forEach(function(j2) { _this.schedule(j) }): schedule is given j, the array,
\* once per element
InnerFrom(js, j, k) ==
  IF k > Len(j.items) THEN [jobs |-> js, outcome |-> "ok"]
  ELSE LET r == ScheduleNode(js, j)
       IN  IF r.outcome # "ok" THEN r ELSE InnerFrom(r.jobs, j, k + 1)

RECURSIVE EachFrom(_, _, _)
\* jobs.forEach(function(j) { ... }) from item k on: a throw ends the iteration
EachFrom(js, items, k) ==
  IF k > Len(items) THEN [jobs |-> js, outcome |-> "ok"]
  ELSE LET j == items[k]
           r == IF TypeOf(j) = "array" THEN InnerFrom(js, j, 1) ELSE ScheduleNode(js, j)
       IN  IF r.outcome # "ok" THEN r ELSE EachFrom(r.jobs, items, k + 1)

JobReturn(id) == [kind |-> "Job", ids |-> <<id>>]

\* return this.jobs: the registry itself, every job registered so far in order
RegistryReturn(js) == [kind |-> "Array", ids |-> [k \in 1..Len(js) |-> k]]

\* scheduleAll returning the registry for one specification too
ScheduleAllRun_AlwaysRegistry(js, input) ==
  IF Truthy(input.spec.job)
    THEN LET r == ScheduleNode(js, input)
         IN  [jobs |-> r.jobs, outcome |-> r.outcome,
              ret |-> IF r.outcome = "ok" THEN RegistryReturn(r.jobs) ELSE NoReturn]
  ELSE IF input.shape # "array"
    THEN [jobs |-> js, outcome |-> "TypeError", ret |-> NoReturn]
  ELSE LET r == EachFrom(js, input.items, 1)
       IN  [jobs |-> r.jobs, outcome |-> r.outcome,
            ret |-> IF r.outcome = "ok" THEN RegistryReturn(r.jobs) ELSE NoReturn]

\* ScheduleMe.prototype.scheduleAll on registry js: the registry after it, how it ended
\* and what it returned.  A plain object without a job has no forEach
ScheduleAllRun(js, input) ==
  IF Truthy(input.spec.job)
    THEN LET r == ScheduleNode(js, input)
         IN  [jobs |-> r.jobs, outcome |-> r.outcome,
              ret |-> IF r.outcome = "ok" THEN JobReturn(Len(r.jobs)) ELSE NoReturn]
  ELSE IF input.shape # "array"
    THEN [jobs |-> js, outcome |-> "TypeError", ret |-> NoReturn]
  ELSE LET r == EachFrom(js, input.items, 1)
       IN  [jobs |-> r.jobs, outcome |-> r.outcome,
            ret |-> IF r.outcome = "ok" THEN RegistryReturn(r.jobs) ELSE NoReturn]

ScheduleAll(input) ==
  LET r == ScheduleAllRun(jobs, input) IN
  /\ Len(r.jobs) <= MaxJobs
  /\ jobs' = r.jobs
  /\ running' = Grow(running, r.jobs, FALSE)
  /\ announced' = Grow(announced, r.jobs, FALSE)
  /\ timers' = Grow(timers, r.jobs, 0)
  /\ inflight' = Grow(inflight, r.jobs, NoneInflight)
  /\ last' = Op("scheduleAll", 0, [Quiet EXCEPT !.outcome = r.outcome], input.shape, r.ret)
  /\ UNCHANGED <<started, now>>

\* ------------------------------------------------------------------- jobs

\* the state a step works on, with how it ended so far, the timers it armed, the
\* completion signals given in it and the events emitted in it
Machine ==
  [jobs |-> jobs, timers |-> timers, inflight |-> inflight, running |-> running,
   announced |-> announced,
   outcome |-> "ok", armed |-> 0, invoked |-> <<>>, signals |-> <<>>, emitted |-> <<>>]

\* this.parent.emit(type, {job_id, error, data}): a key the event lacks is "absent"
Event(type, id, err, data) == [type |-> type, job_id |-> id, error |-> err, data |-> data]

\* the handle stop() uses for a job of this trigger kind
Handle(j) ==
  CASE j.when.type = "string" -> j.cronJob
    [] j.when.type = "number" -> j.interval
    [] OTHER -> j.dateTimeout

\* what step 2 of start() passes to the callable as its completion signal:
\* this.job() passes nothing
ImmediateHandler == "undefined"

\* what a timer passes: _.partial(this.job, _.bind(this.jobEnded, this))
TriggerHandler == "jobEnded"

\* the first argument an invocation from `src` was given
HandlerOf(src) == IF src = "immediate" THEN ImmediateHandler ELSE TriggerHandler

\* new cron.CronJob(..., true), setInterval, setTimeout: one more armed timer for job i
Armed(m, i) == [m EXCEPT !.timers[i] = @ + 1, !.armed = @ + 1]

\* the trigger dispatch of start(): the three ifs, in order; the new handle replaces
\* the stored one, whatever that referred to
ArmRun(m, i) ==
  LET j == m.jobs[i]
  IN  CASE j.when.type = "string" -> [Armed(m, i) EXCEPT !.jobs[i].cronJob = "live"]
        [] j.when.type = "number" -> [Armed(m, i) EXCEPT !.jobs[i].interval = "live"]
        [] j.when.type = "date" ->
             LET msUntilDate == j.when.v - now
             IN  IF msUntilDate < 0
                   THEN [m EXCEPT !.outcome = "Job is in the past"]
                   ELSE [Armed(m, i) EXCEPT !.jobs[i].dateTimeout = "live"]
        [] OTHER -> m

\* jobEnded testing err against null and undefined instead of its truth value
JobEnded_NonNull(i, err, data) ==
  IF err \notin {"undefined", "null"}
    THEN Event("jobError", i, err, data)
    ELSE Event("jobDone", i, "absent", data)

\* ScheduleMeJob.prototype.jobEnded(err, data): the one event it emits
JobEnded(i, err, data) ==
  IF Truthy(err)
    THEN Event("jobError", i, err, data)
    ELSE Event("jobDone", i, "absent", data)

\* the callable of job i calls its first argument with (err, data): the bound jobEnded
\* emits, and calling undefined is a TypeError thrown in the callable
SignalRun(m, i, handler, err, data) ==
  LET m1 == [m EXCEPT !.signals = Append(@, [job |-> i, handler |-> handler,
                                             err |-> err, data |-> data])]
  IN  IF handler = "jobEnded"
        THEN [m1 EXCEPT !.emitted = Append(@, JobEnded(i, err, data))]
        ELSE [m1 EXCEPT !.outcome = "TypeError"]

\* what a callable does when invoked: signal (err, data) before it returns ("sync"), or
\* return and signal later, or never ("async")
Calls ==
  [beh : {"sync"}, err : ErrValues, data : DataValues]
    \cup {[beh |-> "async", err |-> Undefined, data |-> Undefined]}

\* one invocation of job i's callable from `src`
InvokeRun(m, i, src, c) ==
  LET m1 == [m EXCEPT !.invoked = Append(@, [job |-> i, src |-> src])]
  IN  IF c.beh = "sync"
        THEN SignalRun(m1, i, HandlerOf(src), c.err, c.data)
        ELSE IF src = "immediate"
          THEN [m1 EXCEPT !.inflight[i].immediate = @ + 1]
          ELSE [m1 EXCEPT !.inflight[i].trigger = @ + 1]

\* start() arming the trigger without emitting jobStart
JobStartRun_Silent(m, i, c) ==
  LET j == m.jobs[i]
      m2 == IF j.immediate THEN InvokeRun(m, i, "immediate", c) ELSE m
      m3 == IF m2.outcome # "ok" THEN m2 ELSE ArmRun(m2, i)
  IN  [m3 EXCEPT !.running[i] = IF m3.outcome = "ok" THEN TRUE ELSE @]

\* start() invoking the callable whether or not immediate is set
JobStartRun_AlwaysImmediate(m, i, c) ==
  LET m1 == [m EXCEPT !.emitted = Append(@, Event("jobStart", i, "absent", "absent")),
                      !.announced[i] = TRUE]
      m2 == InvokeRun(m1, i, "immediate", c)
      m3 == IF m2.outcome # "ok" THEN m2 ELSE ArmRun(m2, i)
  IN  [m3 EXCEPT !.running[i] = IF m3.outcome = "ok" THEN TRUE ELSE @]

\* ScheduleMeJob.prototype.start on job i; c is what the callable does if the
\* immediate invocation calls it
JobStartRun(m, i, c) ==
  LET j == m.jobs[i]
      m1 == [m EXCEPT !.emitted = Append(@, Event("jobStart", i, "absent", "absent")),
                      !.announced[i] = TRUE]
      m2 == IF j.immediate THEN InvokeRun(m1, i, "immediate", c) ELSE m1
      m3 == IF m2.outcome # "ok" THEN m2 ELSE ArmRun(m2, i)
  IN  [m3 EXCEPT !.running[i] = IF m3.outcome = "ok" THEN TRUE ELSE @]

\* clearInterval(h), clearTimeout(h), and stop() of a cron registration h: an armed
\* timer is cancelled, anything else is left as it is
Cleared(m, i, h) == IF h = "live" THEN [m EXCEPT !.timers[i] = @ - 1] ELSE m

\* ScheduleMeJob.prototype.stop on job i: this.cronJob.stop() on an undefined cronJob
\* is a TypeError; clearInterval and clearTimeout take any handle.  No handle is reset:
\* one that was live refers to a cancelled timer afterwards
JobStopRun(m, i) ==
  LET j == m.jobs[i]
      Dead(h) == IF h = "live" THEN "dead" ELSE h
  IN  CASE j.when.type = "string" ->
             IF j.cronJob = NoHandle
               THEN [m EXCEPT !.outcome = "TypeError"]
               ELSE [Cleared(m, i, j.cronJob) EXCEPT !.jobs[i].cronJob = Dead(@),
                                                     !.running[i] = FALSE]
        [] j.when.type = "number" ->
             [Cleared(m, i, j.interval) EXCEPT !.jobs[i].interval = Dead(@),
                                               !.running[i] = FALSE]
        [] j.when.type = "date" ->
             [Cleared(m, i, j.dateTimeout) EXCEPT !.jobs[i].dateTimeout = Dead(@),
                                                  !.running[i] = FALSE]
        [] OTHER -> [m EXCEPT !.running[i] = FALSE]

RECURSIVE Sum(_)
Sum(seq) == IF seq = <<>> THEN 0 ELSE Head(seq) + Sum(Tail(seq))

\* the bounds of the model, on the state an operation leaves
Within(m) ==
  /\ Sum(m.timers) <= MaxTimers
  /\ Sum([k \in 1..Len(m.inflight) |-> m.inflight[k].immediate + m.inflight[k].trigger])
       <= MaxInflight

\* the state an operation leaves becomes the state
Commit(m) ==
  /\ Within(m)
  /\ jobs' = m.jobs
  /\ timers' = m.timers
  /\ inflight' = m.inflight
  /\ running' = m.running
  /\ announced' = m.announced

\* a caller holding the Job handle calls job.start()
JobStart(i, c) ==
  LET m == JobStartRun(Machine, i, c) IN
  /\ Commit(m)
  /\ last' = Op("job.start", i, m, "none", NoReturn)
  /\ UNCHANGED <<started, now>>

\* a caller holding the Job handle calls job.stop()
JobStop(i) ==
  LET m == JobStopRun(Machine, i) IN
  /\ Commit(m)
  /\ last' = Op("job.stop", i, m, "none", NoReturn)
  /\ UNCHANGED <<started, now>>

\* -------------------------------------------------------------- scheduler

RECURSIVE StartFrom_KeepGoing(_, _, _)
\* the iteration of start() going on to the next job after a job's start() threw
StartFrom_KeepGoing(m, i, cs) ==
  IF i > Len(m.jobs) THEN m
  ELSE LET r == JobStartRun([m EXCEPT !.outcome = "ok"], i, cs[i])
       IN  StartFrom_KeepGoing([r EXCEPT !.outcome = IF m.outcome # "ok" THEN m.outcome ELSE @],
                               i + 1, cs)

RECURSIVE StartFrom(_, _, _)
\* this.jobs.forEach(job.start()) from job i on: a throw ends the iteration
StartFrom(m, i, cs) ==
  IF i > Len(m.jobs) THEN m
  ELSE LET r == JobStartRun(m, i, cs[i])
       IN  IF r.outcome # "ok" THEN r ELSE StartFrom(r, i + 1, cs)

RECURSIVE StopFrom(_, _)
\* this.jobs.forEach(job.stop()) from job i on: a throw ends the iteration
StopFrom(m, i) ==
  IF i > Len(m.jobs) THEN m
  ELSE LET r == JobStopRun(m, i)
       IN  IF r.outcome # "ok" THEN r ELSE StopFrom(r, i + 1)

\* start() testing this.started after the iteration
SchedulerStartRun_CheckedLast(m, cs) ==
  LET r == StartFrom(m, 1, cs)
  IN  IF r.outcome = "ok" /\ started
        THEN [r EXCEPT !.outcome = "Scheduler is already started"]
        ELSE r

\* start() without its check of this.started
SchedulerStartRun_Unchecked(m, cs) == StartFrom(m, 1, cs)

\* ScheduleMe.prototype.start: the check of this.started comes before the iteration,
\* this.started = true after it
SchedulerStartRun(m, cs) ==
  IF started THEN [m EXCEPT !.outcome = "Scheduler is already started"]
  ELSE StartFrom(m, 1, cs)

\* ScheduleMe.prototype.stop
SchedulerStopRun(m) == StopFrom(m, 1)

\* what each callable does if start() invokes it: only an immediate job's is invoked
CallChoices(js) ==
  {cs \in [1..Len(js) -> Calls] :
     \A k \in 1..Len(js) : ~js[k].immediate => cs[k].beh = "async"}

SchedulerStart(cs) ==
  LET m == SchedulerStartRun(Machine, cs) IN
  /\ Commit(m)
  /\ started' = IF m.outcome = "ok" THEN TRUE ELSE started
  /\ last' = Op("start", 0, m, "none", NoReturn)
  /\ UNCHANGED now

SchedulerStop ==
  LET m == SchedulerStopRun(Machine) IN
  /\ Commit(m)
  /\ started' = IF m.outcome = "ok" THEN FALSE ELSE started
  /\ last' = Op("stop", 0, m, "none", NoReturn)
  /\ UNCHANGED now

\* ------------------------------------------------------------ environment

\* which of job i's armed timers fires: the one its handle refers to, or one whose
\* handle a later start() replaced
CanFire(i, which) ==
  /\ timers[i] > 0
  /\ jobs[i].when.type = "date" => now >= jobs[i].when.v
  /\ IF which = "held" THEN Handle(jobs[i]) = "live"
     ELSE timers[i] > (IF Handle(jobs[i]) = "live" THEN 1 ELSE 0)

\* every timer gone once it fired, the recurring ones too
Fired_OneShot(m, i, which) ==
  IF which = "held"
    THEN [m EXCEPT !.timers[i] = @ - 1,
                   !.jobs[i].cronJob = IF @ = "live" THEN "dead" ELSE @,
                   !.jobs[i].interval = IF @ = "live" THEN "dead" ELSE @,
                   !.jobs[i].dateTimeout = IF @ = "live" THEN "dead" ELSE @]
    ELSE [m EXCEPT !.timers[i] = @ - 1]

\* what firing does to the timer: a timeout is gone, an interval and a cron
\* registration stay armed
Fired(m, i, which) ==
  IF m.jobs[i].when.type # "date" THEN m
  ELSE IF which = "held"
    THEN [m EXCEPT !.timers[i] = @ - 1, !.jobs[i].dateTimeout = "dead"]
    ELSE [m EXCEPT !.timers[i] = @ - 1]

\* a timer of job i fires: the callable is invoked with the bound jobEnded
Fire(i, which, c) ==
  LET m == InvokeRun(Fired(Machine, i, which), i, "trigger", c)
  IN  /\ CanFire(i, which)
      /\ Commit(m)
      /\ last' = Op("fire", i, m, "none", NoReturn)
      /\ UNCHANGED <<started, now>>

\* an invocation of job i's callable that returned earlier calls its first argument
\* with (err, data)
Complete(i, src, err, data) ==
  LET taken == IF src = "immediate"
                 THEN [Machine EXCEPT !.inflight[i].immediate = @ - 1]
                 ELSE [Machine EXCEPT !.inflight[i].trigger = @ - 1]
      m == SignalRun(taken, i, HandlerOf(src), err, data)
  IN  /\ inflight[i][src] > 0
      /\ Commit(m)
      /\ last' = Op("signal", i, m, "none", NoReturn)
      /\ UNCHANGED <<started, now>>

\* time passes
Tick ==
  /\ now < MaxTime
  /\ now' = now + 1
  /\ last' = Op("tick", 0, Quiet, "none", NoReturn)
  /\ UNCHANGED <<jobs, started, timers, inflight, running, announced>>

Forms == {"structured", "positional"}

Sources == {"immediate", "trigger"}

\* the specifications schedule accepts
ValidSpecs == {spec \in Specs : ScheduleMeJobError(spec) = "ok"}

Next ==
  \/ \E form \in Forms, spec \in ValidSpecs : Schedule(form, spec)
  \/ \E cs \in CallChoices(jobs) : SchedulerStart(cs)
  \/ SchedulerStop
  \/ \E i \in 1..Len(jobs) :
       \E c \in {x \in Calls : jobs[i].immediate \/ x.beh = "async"} : JobStart(i, c)
  \/ \E i \in 1..Len(jobs) : JobStop(i)
  \/ \E i \in 1..Len(jobs), which \in {"held", "lost"}, c \in Calls : Fire(i, which, c)
  \/ \E i \in 1..Len(jobs), src \in Sources, err \in ErrValues, data \in DataValues :
       Complete(i, src, err, data)
  \/ Tick

\* the lifecycle of the registered jobs (the calls of schedule that fail are in SpecAll)
Spec == Init /\ [][Next]_vars

\* registration alone: schedule, and scheduleAll on every shape of input
NextAll ==
  \/ \E form \in Forms, spec \in {sp \in Specs : ~sp.immediate} : Schedule(form, spec)
  \/ \E input \in Inputs : ScheduleAll(input)

SpecAll == Init /\ [][NextAll]_vars

\* what a callable may hand to its completion signal as the error, falsy values that
\* are not null among them
AllErrValues == {"undefined", "null", "num:0", "str:", "false", "err:boom", "str:failed"}

\* and as the payload
AllDataValues == {"undefined", "str:d", "num:0"}

AllCalls ==
  [beh : {"sync"}, err : AllErrValues, data : AllDataValues]
    \cup {[beh |-> "async", err |-> Undefined, data |-> Undefined]}

CronSpec == [job |-> "fn", when |-> [type |-> "string", v |-> 0], immediate |-> FALSE]

\* the completion signal on every value: cron jobs that fire and signal
NextEnded ==
  \/ Schedule("structured", CronSpec)
  \/ \E cs \in CallChoices(jobs) : SchedulerStart(cs)
  \/ SchedulerStop
  \/ \E i \in 1..Len(jobs), c \in AllCalls : Fire(i, "held", c)
  \/ \E i \in 1..Len(jobs), err \in AllErrValues, data \in AllDataValues :
       Complete(i, "trigger", err, data)

SpecEnded == Init /\ [][NextEnded]_vars

\* ----------------------------------------------------------------- claims

AlreadyStarted == "Scheduler is already started"

PastDate == "Job is in the past"

JobIds == 1..Len(jobs)

\* C1 (as amended): when Scheduler.start() has returned normally and is called again
\* with nothing in between, the second call fails with AlreadyStarted and arms no
\* timer, so no job gets a second armed timer from it.
C1_SecondStartFails ==
  (last.op = "start" /\ last.after = "ok")
    => (last.outcome = AlreadyStarted /\ last.armed = 0)

\* the second of two successive start() calls has failed, with the jobs armed once
C1_Witness ==
  /\ last.op = "start" /\ last.after = "ok"
  /\ Len(jobs) = 2
  /\ \A i \in JobIds : timers[i] = 1

\* C1 (as claimed, here for the registries without an immediate job): whatever the
\* registry holds, the second of two successive start() calls fails with
\* AlreadyStarted and arms no timer.
C1_AnyRegistry ==
  (last.op = "start" /\ last.after # "none" /\ \A i \in JobIds : ~jobs[i].immediate)
    => (last.outcome = AlreadyStarted /\ last.armed = 0)

\* C2: stop() on a job whose handle is absent (it was never started) does not throw
\* and leaves no timer armed, for every trigger kind.
C2_StopNeverStarted ==
  (last.op = "job.stop" /\ Handle(jobs[last.job]) = NoHandle)
    => (last.outcome = "ok" /\ timers[last.job] = 0)

\* C3: Scheduler.stop() completes without error from every state, has stopped every
\* job (no handle refers to an armed timer) and ends with started = false.
C3_StopAlwaysCompletes ==
  last.op = "stop"
    => /\ last.outcome = "ok"
       /\ ~started
       /\ \A i \in JobIds : Handle(jobs[i]) # "live"

\* C4: after Scheduler.stop() has returned, no job of the registry has an armed timer,
\* whatever calls of start() and stop() came before.
C4_NoTimerAfterStop ==
  (last.op = "stop" /\ last.outcome = "ok") => \A i \in JobIds : timers[i] = 0

\* C5: for every job, in every state, its stored handle is non-null if and only if
\* the job is currently started.
C5_HandleIffStarted ==
  \A i \in JobIds : (Handle(jobs[i]) # NoHandle) <=> running[i]

\* C6: the immediate invocation is given the job's completion handler: start() of an
\* immediate job goes on to its trigger whatever the callable signals, and a
\* completion signal, from whichever invocation, emits one jobDone or jobError
\* carrying the job's id.
C6_ImmediateReports ==
  /\ (last.op = "job.start" /\ jobs[last.job].immediate)
       => last.outcome \in {"ok", PastDate}
  /\ \A k \in 1..Len(last.signals) :
       /\ last.signals[k].handler = "jobEnded"
       /\ \E e \in 1..Len(last.emitted) :
            /\ last.emitted[e].type \in {"jobDone", "jobError"}
            /\ last.emitted[e].job_id = last.signals[k].job

\* the leaf specifications of an input, in order: the input itself, or the items of
\* the array with the arrays among them flattened one level
Leaves(input) ==
  LET RECURSIVE Flat(_, _)
      Flat(items, k) ==
        IF k > Len(items) THEN <<>>
        ELSE (IF items[k].shape = "array"
                THEN [n \in 1..Len(items[k].items) |-> items[k].items[n].spec]
                ELSE <<items[k].spec>>) \o Flat(items, k + 1)
  IN  IF input.shape = "array" THEN Flat(input.items, 1) ELSE <<input.spec>>

\* the registry after schedule is called once on every specification of `specs`
RECURSIVE EachLeaf(_, _)
EachLeaf(js, specs) ==
  IF specs = <<>> THEN js
  ELSE EachLeaf(ScheduleRun(js, "structured", Head(specs)).jobs, Tail(specs))

\* C7: scheduleAll given one specification, a list of them or a one-level nested list
\* leaves the registry as calling schedule on every leaf, in order, leaves it (here
\* for the inputs whose leaves all have a job and a trigger).
C7_SameAsEachLeaf ==
  [][\A input \in Inputs :
       (ScheduleAll(input)
          /\ \A n \in 1..Len(Leaves(input)) :
               ScheduleMeJobError(Leaves(input)[n]) = "ok")
         => jobs' = EachLeaf(jobs, Leaves(input))]_vars

\* C8 (as amended): scheduleAll returns the full current registry, every job
\* registered so far in order, when it completes on a list; given one single
\* specification it returns the one Job that schedule created for it.
C8_ReturnByShape ==
  (last.op = "scheduleAll" /\ last.outcome = "ok")
    => IF last.arg = "array"
         THEN /\ last.ret.kind = "Array"
              /\ Len(last.ret.ids) = Len(jobs)
              /\ \A k \in JobIds : last.ret.ids[k] = k
         ELSE /\ last.ret.kind = "Job"
              /\ last.ret.ids = <<Len(jobs)>>

\* scheduleAll was given one single specification when the registry held a job, and
\* returned the new Job, not the registry of two
C8_Witness ==
  /\ last.op = "scheduleAll" /\ last.outcome = "ok" /\ last.arg = "spec"
  /\ Len(jobs) = 2
  /\ last.ret.kind = "Job"

\* C8 (as claimed): scheduleAll returns the full current registry for every input
\* shape, one single specification included.
C8_AlwaysRegistry ==
  (last.op = "scheduleAll" /\ last.outcome = "ok")
    => /\ last.ret.kind = "Array"
       /\ Len(last.ret.ids) = Len(jobs)
       /\ \A k \in JobIds : last.ret.ids[k] = k

\* the values JavaScript takes for false in if(err)
Falsy == {"undefined", "null", "num:0", "str:", "false"}

\* the one completion signal of a timer firing or of a later completion, given to the
\* bound jobEnded
EndedWith(sig) ==
  /\ last.op \in {"fire", "signal"}
  /\ last.signals = <<sig>>
  /\ sig.handler = "jobEnded"

\* C9 (as amended): jobEnded invoked with a truthy error emits exactly one jobError
\* carrying that error, the payload and the job's id, and no jobDone; invoked with a
\* falsy error (undefined, null, 0, '', false) it emits exactly one jobDone carrying
\* the payload and the job's id, and no jobError.
C9_TruthyError ==
  \A k \in 1..Len(last.signals) :
    LET sig == last.signals[k] IN
    EndedWith(sig) =>
      IF sig.err \notin Falsy
        THEN last.emitted = <<[type |-> "jobError", job_id |-> sig.job,
                               error |-> sig.err, data |-> sig.data]>>
        ELSE last.emitted = <<[type |-> "jobDone", job_id |-> sig.job,
                               error |-> "absent", data |-> sig.data]>>

\* jobEnded was invoked with the error 0, which is not null, and emitted jobDone
C9_Witness ==
  \E k \in 1..Len(last.signals) :
    /\ EndedWith(last.signals[k])
    /\ last.signals[k].err = "num:0"
    /\ Len(last.emitted) = 1 /\ last.emitted[1].type = "jobDone"

\* C9 (as claimed): jobEnded invoked with a non-null error emits exactly one jobError
\* carrying that error and the job's id; invoked with no error, exactly one jobDone.
C9_NonNullError ==
  \A k \in 1..Len(last.signals) :
    LET sig == last.signals[k] IN
    EndedWith(sig) =>
      IF sig.err \notin {"undefined", "null"}
        THEN last.emitted = <<[type |-> "jobError", job_id |-> sig.job,
                               error |-> sig.err, data |-> sig.data]>>
        ELSE last.emitted = <<[type |-> "jobDone", job_id |-> sig.job,
                               error |-> "absent", data |-> sig.data]>>

\* C10: start() of a date job whose instant is before now fails with PastDate and arms
\* no timer, and stop() of a date job does not throw.
C10_PastDateRejected ==
  /\ (last.op = "job.start" /\ jobs[last.job].when.type = "date"
        /\ jobs[last.job].when.v < now)
       => (last.outcome = PastDate /\ last.armed = 0
             /\ jobs[last.job].dateTimeout # "live")
  /\ (last.op = "job.stop" /\ jobs[last.job].when.type = "date")
       => last.outcome = "ok"

\* C11: a started job with a Date trigger in the future never fires its callable
\* before the instant, fires it once when the instant is reached, and never again:
\* when its timeout fires the instant has been reached and no timeout of the job is
\* left armed.
C11_FiresOnce ==
  (last.op = "fire" /\ jobs[last.job].when.type = "date")
    => (now >= jobs[last.job].when.v /\ timers[last.job] = 0)

\* C12: Scheduler.start() called while started is true fails with AlreadyStarted and
\* has no side effects: no job's start() runs (no jobStart is emitted, no callable is
\* invoked), no timer is armed or replaced, and started stays true.  (A step that
\* leaves last.op = "start" is a call of the scheduler's start().)
C12_StartWhileStarted ==
  [][(started /\ last'.op = "start")
       => /\ last'.outcome = AlreadyStarted
          /\ last'.emitted = <<>> /\ last'.invoked = <<>> /\ last'.armed = 0
          /\ started'
          /\ jobs' = jobs /\ timers' = timers /\ inflight' = inflight
          /\ running' = running /\ announced' = announced]_vars

\* start() was called on a started scheduler whose two jobs are armed, and failed
C12_Witness ==
  /\ last.op = "start" /\ last.outcome = AlreadyStarted
  /\ started
  /\ Len(jobs) = 2
  /\ \A i \in JobIds : Handle(jobs[i]) = "live"

MissingCallable == "No job given"

MissingTrigger == "No when given"

\* C13: schedule fails with MissingCallable when no callable is given and with
\* MissingTrigger when no trigger is given, in the structured and in the positional
\* form, and on either failure no job is appended to the registry.
C13_MissingRejected ==
  [][last'.op = "schedule"
       => \A form \in Forms, spec \in Specs :
            Schedule(form, spec)
              => /\ ~Truthy(spec.job)
                      => (last'.outcome = MissingCallable /\ jobs' = jobs)
                 /\ (Truthy(spec.job) /\ ~WhenTruthy(spec.when))
                      => (last'.outcome = MissingTrigger /\ jobs' = jobs)]_vars

\* schedule was called without a trigger on a registry of one job, and failed
C13_Witness ==
  /\ last.op = "schedule" /\ last.outcome = MissingTrigger
  /\ Len(jobs) = 1

\* C14: for every job, a jobStart event for that job is emitted before the first
\* jobDone or jobError event carrying that job's id: whenever a step emits a jobDone
\* or a jobError, a jobStart of the same job was emitted in an earlier step or
\* earlier in this one.
C14_StartBeforeEnd ==
  [][\A k \in 1..Len(last'.emitted) :
       LET e == last'.emitted[k] IN
       e.type \in {"jobDone", "jobError"}
         => \/ (e.job_id \in 1..Len(announced) /\ announced[e.job_id])
            \/ \E n \in 1..(k - 1) :
                 /\ last'.emitted[n].type = "jobStart"
                 /\ last'.emitted[n].job_id = e.job_id]_vars

\* the second job's callable has reported an error after the timer fired, and
\* jobError was emitted for it
C14_Witness ==
  /\ last.op = "signal" /\ last.job = 2
  /\ Len(last.emitted) = 1 /\ last.emitted[1].type = "jobError"
  /\ announced[2]

\* what a job of the registry was registered as, whatever its handles refer to
Registered(j) == [job |-> j.job, when |-> j.when, immediate |-> j.immediate]

\* the registry as the sequence of what was registered
Registry == [k \in 1..Len(jobs) |-> Registered(jobs[k])]

\* C15: the job registry is append-only: start() and stop() (of the scheduler and of
\* a job), timer firings and completion signals leave its contents and order
\* unchanged, a schedule that succeeds appends exactly one job at the end, and no
\* step removes or reorders a job.
C15_AppendOnly ==
  [][IF last'.op = "schedule" /\ last'.outcome = "ok"
       THEN /\ Len(Registry') = Len(Registry) + 1
            /\ SubSeq(Registry', 1, Len(Registry)) = Registry
       ELSE Registry' = Registry]_vars

\* the scheduler was stopped after its two different jobs were armed, and the
\* registry holds the two jobs
C15_Witness ==
  /\ last.op = "stop" /\ last.outcome = "ok"
  /\ Len(jobs) = 2
  /\ jobs[1].when.type = "number" /\ jobs[2].when.type = "date"
  /\ \A i \in JobIds : Handle(jobs[i]) = "dead"

\* how often job k's callable was invoked in the last step
Invocations(k) == Cardinality({n \in 1..Len(last.invoked) : last.invoked[n].job = k})

\* how many calls of job k's start() the last step made: each emits one jobStart
StartCalls(k) ==
  Cardinality({n \in 1..Len(last.emitted) :
                 last.emitted[n].type = "jobStart" /\ last.emitted[n].job_id = k})

\* C16: a job with immediate set has its callable invoked exactly once, inside the
\* call, by each Job.start() call, and a job without immediate is not invoked by
\* start(); the invocation is apart from the trigger's: a start() that returns has
\* armed one timer whether or not it invoked the callable, and a timer that fires
\* invokes the callable once whether or not the job is immediate.
C16_ImmediateOnce ==
  /\ last.op \in {"job.start", "start"}
       => /\ \A k \in JobIds :
               Invocations(k) = IF jobs[k].immediate THEN StartCalls(k) ELSE 0
          /\ \A n \in 1..Len(last.invoked) : last.invoked[n].src = "immediate"
  /\ (last.op = "job.start" /\ last.outcome = "ok")
       => (StartCalls(last.job) = 1 /\ last.armed = 1)
  /\ last.op = "fire"
       => last.invoked = <<[job |-> last.job, src |-> "trigger"]>>

\* start() of an immediate job invoked the callable, which has not signalled yet,
\* and armed the job's timer
C16_Witness ==
  /\ last.op = "job.start" /\ last.outcome = "ok"
  /\ jobs[last.job].immediate
  /\ last.invoked = <<[job |-> last.job, src |-> "immediate"]>>
  /\ inflight[last.job].immediate = 1
  /\ timers[last.job] = 1

\* the job whose start() was the last one a call of the scheduler's start() made:
\* the jobs are started in registry order and each start() emits one jobStart
LastStarted(emitted) ==
  Cardinality({n \in 1..Len(emitted) : emitted[n].type = "jobStart"})

\* C17: when one job's start() fails during Scheduler.start() (a past Date job, or
\* the callable's TypeError of C6), the error is the outcome of Scheduler.start(),
\* the jobs later in registry order are not started (no jobStart, nothing armed or
\* invoked, their state as before), the jobs earlier in registry order were started
\* and remain armed, and started stays false.
C17_FailedStartStops ==
  [][(last'.op = "start" /\ last'.outcome \notin {"ok", AlreadyStarted})
       => LET k == LastStarted(last'.emitted) IN
          /\ ~started /\ ~started'
          /\ k \in JobIds
          /\ last'.outcome = PastDate
               => (jobs[k].when.type = "date" /\ jobs[k].when.v < now)
          /\ last'.armed = k - 1
          /\ \A i \in 1..(k - 1) :
               /\ Handle(jobs'[i]) = "live" /\ timers'[i] = timers[i] + 1
               /\ running'[i]
          /\ \A i \in (k + 1)..Len(jobs) :
               /\ jobs'[i] = jobs[i] /\ timers'[i] = timers[i]
               /\ inflight'[i] = inflight[i] /\ announced'[i] = announced[i]
               /\ \A n \in 1..Len(last'.emitted) : last'.emitted[n].job_id # i
               /\ \A n \in 1..Len(last'.invoked) : last'.invoked[n].job # i]_vars

\* Scheduler.start() failed on the second job, a Date job whose instant has passed,
\* after it armed the first
C17_Witness ==
  /\ last.op = "start" /\ last.outcome = PastDate
  /\ ~started
  /\ Len(jobs) = 2
  /\ jobs[2].when.type = "date" /\ jobs[2].dateTimeout = NoHandle
  /\ Handle(jobs[1]) = "live" /\ last.armed = 1

\* C18: Job.stop() prevents the future firings: after a job's stop() has returned and
\* until its next start(), the trigger begins no new invocation of the callable, so
\* a timer of a job fires only while the job is started.  (An invocation in flight
\* at the stop may still signal: a completion signal is not a firing.)
C18_NoFiringAfterStop ==
  last.op = "fire" => running[last.job]

\* CanFire(i, which) in the state a step leaves
CanFireNext(i, which) ==
  /\ timers'[i] > 0
  /\ jobs'[i].when.type = "date" => now' >= jobs'[i].when.v
  /\ IF which = "held" THEN Handle(jobs'[i]) = "live"
     ELSE timers'[i] > (IF Handle(jobs'[i]) = "live" THEN 1 ELSE 0)

\* C19: a firing of a recurring (interval or cron) job that reports an error through
\* its completion signal, inside the invocation or later, produces one jobError event
\* and nothing else: the step ends normally, no timer and no handle changes, and
\* after a firing that reported the error the timer that fired can fire again.
C19_ErrorOnlyEvent ==
  [][\A k \in 1..Len(last'.signals) :
       LET sig == last'.signals[k]
           i == sig.job
       IN  (/\ last'.op \in {"fire", "signal"}
            /\ sig.handler = "jobEnded" /\ Truthy(sig.err)
            /\ jobs[i].when.type \in {"string", "number"})
             => /\ last'.outcome = "ok"
                /\ last'.emitted = <<Event("jobError", i, sig.err, sig.data)>>
                /\ timers' = timers /\ jobs' = jobs /\ running' = running
                /\ last'.op = "fire"
                     => \E which \in {"held", "lost"} :
                          CanFire(i, which) /\ CanFireNext(i, which)]_vars

\* the interval job's callable reported an error inside the firing: jobError was
\* emitted and the interval is still armed
C19_Witness ==
  /\ last.op = "fire" /\ last.outcome = "ok"
  /\ jobs[last.job].when.type = "number"
  /\ Len(last.signals) = 1 /\ last.signals[1].err = "err:boom"
  /\ Len(last.emitted) = 1 /\ last.emitted[1].type = "jobError"
  /\ jobs[last.job].interval = "live" /\ timers[last.job] = 1

\* C20: a job registered with schedule while the scheduler is started is not started
\* by the registration: the schedule emits no jobStart and arms no timer although
\* started is true, and a job stays without jobStart, timer and handle until a step
\* that is its own start() or a start() of the scheduler while it is not started.
C20_NotStartedByRegistration ==
  [][/\ (last'.op = "schedule" /\ last'.outcome = "ok" /\ started)
          => /\ started'
             /\ last'.emitted = <<>> /\ last'.armed = 0 /\ last'.invoked = <<>>
             /\ ~announced'[Len(jobs')]
     /\ \A i \in 1..Len(jobs') :
          ~announced'[i]
            => (timers'[i] = 0 /\ Handle(jobs'[i]) = NoHandle /\ ~running'[i])
     /\ \A i \in 1..Len(jobs) :
          (~announced[i] /\ announced'[i])
            => \/ (last'.op = "job.start" /\ last'.job = i)
               \/ (last'.op = "start" /\ ~started)]_vars

\* a second job was registered while the scheduler was started with the first job
\* armed: the new job has no timer
C20_Witness ==
  /\ last.op = "schedule" /\ last.outcome = "ok"
  /\ started
  /\ Len(jobs) = 2
  /\ timers[1] = 1 /\ timers[2] = 0
  /\ ~announced[2] /\ Handle(jobs[2]) = NoHandle

====
